---- MODULE Spec2Model ----
(***************************************************************************)
(* A model of moji_namer.py: the slug sanitizer, the path resolver and the *)
(* orchestrating loop of main().  Text and file names are sequences of     *)
(* one-character strings, so that sanitizing, formatting a numeric suffix, *)
(* taking a suffix and sorting are computed character by character.        *)
(* The directory is the set of the names of its entries; glob and the file *)
(* system compare names case-sensitively, as on POSIX, and no other        *)
(* process touches the directory during a run.                             *)
(***************************************************************************)
EXTENDS Integers, Sequences, FiniteSets, TLC

\* ---------------------------------------------------------------- bounds
MaxTextLen == 4      \* longest text handed to sanitize_to_slug on its own
MaxMaxLength == 6    \* largest max_length handed to sanitize_to_slug on its own
MaxSuffix == 2       \* highest numeric suffix among the files already present
MaxFiles == 3        \* most files in the directory when main starts

\* ------------------------------------------------------------ characters
LowerLetters == <<"a","b","c","d","e","f","g","h","i","j","k","l","m",
                  "n","o","p","q","r","s","t","u","v","w","x","y","z">>
UpperLetters == <<"A","B","C","D","E","F","G","H","I","J","K","L","M",
                  "N","O","P","Q","R","S","T","U","V","W","X","Y","Z">>
Digits == <<"0","1","2","3","4","5","6","7","8","9">>
Whitespace == {" "}

Range(s) == {s[i] : i \in 1..Len(s)}

\* the characters of a file name in code-point order; sorted() compares by it
CodePointOrder == <<"-", ".">> \o Digits \o UpperLetters \o <<"_">> \o LowerLetters

Ord(c) == CHOOSE i \in 1..Len(CodePointOrder) : CodePointOrder[i] = c

\* str.lower(), one character
LowerChar(c) ==
    IF \E i \in 1..26 : UpperLetters[i] = c
    THEN LowerLetters[CHOOSE i \in 1..26 : UpperLetters[i] = c]
    ELSE c

\* str.lower()
Lower(s) == [i \in 1..Len(s) |-> LowerChar(s[i])]

\* str.strip(chars): drop the leading and the trailing characters in chars
RECURSIVE LStrip(_, _)
LStrip(s, chars) ==
    IF s # <<>> /\ Head(s) \in chars THEN LStrip(Tail(s), chars) ELSE s

RECURSIVE RStrip(_, _)
RStrip(s, chars) ==
    IF s # <<>> /\ s[Len(s)] \in chars
    THEN RStrip(SubSeq(s, 1, Len(s) - 1), chars) ELSE s

Strip(s, chars) == RStrip(LStrip(s, chars), chars)

\* re.sub(r"[^...]+", "", s): delete every character outside keep
RECURSIVE DeleteOutside(_, _)
DeleteOutside(s, keep) ==
    IF s = <<>> THEN <<>>
    ELSE IF Head(s) \in keep THEN <<Head(s)>> \o DeleteOutside(Tail(s), keep)
    ELSE DeleteOutside(Tail(s), keep)

\* re.sub(r"[...]+", "_", s): each maximal run of characters of cls becomes "_"
RECURSIVE ReplaceRuns(_, _)
ReplaceRuns(s, cls) ==
    IF s = <<>> THEN <<>>
    ELSE IF Head(s) \in cls
         THEN <<"_">> \o ReplaceRuns(LStrip(s, cls), cls)
         ELSE <<Head(s)>> \o ReplaceRuns(Tail(s), cls)

\* text[:n] for n >= 0
Truncate(s, n) == SubSeq(s, 1, IF n < Len(s) THEN n ELSE Len(s))

\* ------------------------------------------------------- sanitize_to_slug
Fallback == <<"i","m","a","g","e">>
DefaultMaxLength == 40

SlugAllowed == Range(LowerLetters) \cup Range(Digits) \cup {"_", "-"} \cup Whitespace

Cleaned(text) ==
    LET t1 == Lower(Strip(text, Whitespace))
        t2 == DeleteOutside(t1, SlugAllowed)
        t3 == ReplaceRuns(t2, Whitespace \cup {"-"})
        t4 == ReplaceRuns(t3, {"_"})
    IN  Strip(t4, {"_"})

\* the function without lines 90-91
sanitize_without_fallback(text, max_length) == Truncate(Cleaned(text), max_length)

sanitize_to_slug(text, max_length) ==
    LET t5 == Cleaned(text)
        t6 == IF t5 = <<>> THEN Fallback ELSE t5
    IN  Truncate(t6, max_length)

\* ------------------------------------------------------------ file names
\* f"{counter}": a natural number in decimal
RECURSIVE IntToStr(_)
IntToStr(n) ==
    IF n < 10 THEN <<Digits[n + 1]>>
    ELSE IntToStr(n \div 10) \o <<Digits[(n % 10) + 1]>>

\* string comparison as sorted() applies it to the paths of one directory
RECURSIVE StrLess(_, _)
StrLess(a, b) ==
    IF b = <<>> THEN FALSE
    ELSE IF a = <<>> THEN TRUE
    ELSE IF Head(a) = Head(b) THEN StrLess(Tail(a), Tail(b))
    ELSE Ord(Head(a)) < Ord(Head(b))

\* sorted(..., reverse=True)
RECURSIVE sorted_descending(_)
sorted_descending(S) ==
    IF S = {} THEN <<>>
    ELSE LET greatest == CHOOSE x \in S : \A y \in S \ {x} : StrLess(y, x)
         IN  <<greatest>> \o sorted_descending(S \ {greatest})

\* sorted(): the elements of a finite set of names in ascending order
RECURSIVE sorted(_)
sorted(S) ==
    IF S = {} THEN <<>>
    ELSE LET least == CHOOSE x \in S : \A y \in S \ {x} : StrLess(x, y)
         IN  <<least>> \o sorted(S \ {least})

EndsWith(name, tail) ==
    /\ Len(name) >= Len(tail)
    /\ SubSeq(name, Len(name) - Len(tail) + 1, Len(name)) = tail

\* pathlib's Path.suffix: from the last dot, unless that dot starts or ends the name
suffix(name) ==
    LET dots == {i \in 1..Len(name) : name[i] = "."}
    IN  IF dots = {} THEN <<>>
        ELSE LET i == CHOOSE d \in dots : \A e \in dots : e <= d
             IN  IF 1 < i /\ i < Len(name) THEN SubSeq(name, i, Len(name)) ELSE <<>>

\* ------------------------------------------------------- make_unique_path
\* the directory is the set of the names of its entries
exists(files, name) == name \in files

FirstCandidate(base_nm, ext) == base_nm \o ext

\* the counter formatted one too low
NumberedCandidateFromZero(base_nm, n, ext) ==
    base_nm \o <<"-">> \o IntToStr(n - 1) \o ext

NumberedCandidate(base_nm, n, ext) == base_nm \o <<"-">> \o IntToStr(n) \o ext

RECURSIVE ProbeFrom(_, _, _, _, _)
ProbeFrom(files, base_nm, ext, cand, n) ==
    IF exists(files, cand)
    THEN ProbeFrom(files, base_nm, ext, NumberedCandidate(base_nm, n, ext), n + 1)
    ELSE cand

\* the first candidate returned without the loop of lines 99-101
make_unique_path_unprobed(files, base_nm, ext) == FirstCandidate(base_nm, ext)

make_unique_path(files, base_nm, ext) ==
    ProbeFrom(files, base_nm, ext, FirstCandidate(base_nm, ext), 1)

\* ----------------------------------------------------------------- state
VARIABLES text, max_length, slug, slug_pc,
          mp_files, base_name, extension, candidate, counter, mp_pc,
          files, is_dir, dry_run, picture_paths, idx, pc, log, calls,
          plan_files, real_files, plan_log, real_log, pair_paths, pair_idx, pair_pc

slugVars == <<text, max_length, slug, slug_pc>>
pathVars == <<mp_files, base_name, extension, candidate, counter, mp_pc>>
mainVars == <<files, is_dir, dry_run, picture_paths, idx, pc, log, calls>>
pairVars == <<plan_files, real_files, plan_log, real_log, pair_paths, pair_idx, pair_pc>>
vars == <<slugVars, pathVars, mainVars, pairVars>>

IdleSlug == text = <<>> /\ max_length = 0 /\ slug = <<>> /\ slug_pc = "idle"
IdlePath ==
    /\ mp_files = {} /\ base_name = <<>> /\ extension = <<>>
    /\ candidate = <<>> /\ counter = 0 /\ mp_pc = "idle"
IdleMain ==
    /\ files = {} /\ is_dir = FALSE /\ dry_run = FALSE /\ picture_paths = <<>>
    /\ idx = 0 /\ pc = "idle" /\ log = <<>> /\ calls = <<>>
IdlePair ==
    /\ plan_files = {} /\ real_files = {} /\ plan_log = <<>> /\ real_log = <<>>
    /\ pair_paths = <<>> /\ pair_idx = 0 /\ pair_pc = "idle"

\* --------------------------------------- the sanitizer on bounded inputs
TextAlphabet == {"a", "B", "1", "_", "-", " ", "!"}

RECURSIVE SeqsUpTo(_, _)
SeqsUpTo(S, n) ==
    IF n = 0 THEN {<<>>}
    ELSE LET shorter == SeqsUpTo(S, n - 1)
         IN  shorter \cup {<<c>> \o s : c \in S, s \in {x \in shorter : Len(x) = n - 1}}

InitSlug ==
    /\ text \in SeqsUpTo(TextAlphabet, MaxTextLen)
    /\ max_length \in 0..MaxMaxLength
    /\ slug = <<>>
    /\ slug_pc = "call"
    /\ IdlePath /\ IdleMain /\ IdlePair

Sanitize ==
    /\ slug_pc = "call"
    /\ slug' = sanitize_to_slug(text, max_length)
    /\ slug_pc' = "returned"
    /\ UNCHANGED <<text, max_length, pathVars, mainVars, pairVars>>

NextSlug == Sanitize

SpecSlug == InitSlug /\ [][NextSlug]_vars

\* ---------------------------- the path resolver, one loop test per step
PNG == <<".","p","n","g">>
JPG == <<".","j","p","g">>
JPEG == <<".","j","p","e","g">>
WEBP == <<".","w","e","b","p">>
Cat == <<"c","a","t">>
Dog == <<"d","o","g">>

PathBases == {Cat, Cat \o <<"-","1">>, Dog}
PathExtensions == {PNG, JPG}

PathUniverse ==
    {FirstCandidate(Cat, e) : e \in PathExtensions}
    \cup {NumberedCandidate(Cat, k, e) : k \in 1..MaxSuffix, e \in PathExtensions}
    \cup {NumberedCandidate(Cat \o <<"-","1">>, 1, PNG), FirstCandidate(Dog, PNG)}

InitPath ==
    /\ mp_files \in SUBSET PathUniverse
    /\ base_name \in PathBases
    /\ extension \in PathExtensions
    /\ candidate = <<>>
    /\ counter = 0
    /\ mp_pc = "enter"
    /\ IdleSlug /\ IdleMain /\ IdlePair

\* lines 97-98
PathEnter ==
    /\ mp_pc = "enter"
    /\ candidate' = FirstCandidate(base_name, extension)
    /\ counter' = 1
    /\ mp_pc' = "while"
    /\ UNCHANGED <<mp_files, base_name, extension, slugVars, mainVars, pairVars>>

\* lines 99-101, the loop test holds
PathProbe ==
    /\ mp_pc = "while"
    /\ exists(mp_files, candidate)
    /\ candidate' = NumberedCandidate(base_name, counter, extension)
    /\ counter' = counter + 1
    /\ UNCHANGED <<mp_files, base_name, extension, mp_pc, slugVars, mainVars, pairVars>>

\* lines 99 and 102, the loop test fails
PathReturn ==
    /\ mp_pc = "while"
    /\ ~exists(mp_files, candidate)
    /\ mp_pc' = "returned"
    /\ UNCHANGED <<mp_files, base_name, extension, candidate, counter, slugVars, mainVars, pairVars>>

NextPath == PathEnter \/ PathProbe \/ PathReturn

SpecPath == InitPath /\ [][NextPath]_vars /\ WF_vars(NextPath)

\* ------------------------------------------------------------------ main
\* glob.glob over the four patterns: an entry matches "*<ext>" when its name
\* ends with <ext> and does not start with a dot
Patterns == <<PNG, JPG, JPEG, WEBP>>

GlobMatches(name, ext) == name # <<>> /\ Head(name) # "." /\ EndsWith(name, ext)

glob(fs) == {f \in fs : \E i \in 1..Len(Patterns) : GlobMatches(f, Patterns[i])}

\* os.rename on a POSIX file system: an existing destination is replaced
os_rename(fs, src, dest) == (fs \ {src}) \cup {dest}

Line(tag, src, dest, note) == [tag |-> tag, src |-> src, dest |-> dest, note |-> note]

\* the loop body renaming whatever the mode
BodyIgnoringDryRun(fs, src, suggested, dry) ==
    LET slg == sanitize_to_slug(suggested, DefaultMaxLength)
        dest == make_unique_path(fs, slg, Lower(suffix(src)))
    IN  IF slg = <<>>
        THEN [files |-> fs, line |-> [tag |-> "skip", src |-> src, dest |-> <<>>,
                                      note |-> "empty suggestion"]]
        ELSE IF dest = src
        THEN [files |-> fs, line |-> [tag |-> "keep", src |-> src, dest |-> <<>>, note |-> ""]]
        ELSE [files |-> (fs \ {src}) \cup {dest},
              line |-> [tag |-> "renamed", src |-> src, dest |-> dest, note |-> ""]]

\* lines 127-141: what one iteration does with the suggestion it received
Body(fs, src, suggested, dry) ==
    LET slg == sanitize_to_slug(suggested, DefaultMaxLength)
        dest == make_unique_path(fs, slg, Lower(suffix(src)))
    IN  IF slg = <<>>
        THEN [files |-> fs, line |-> Line("skip", src, <<>>, "empty suggestion")]
        ELSE IF dest = src
        THEN [files |-> fs, line |-> Line("keep", src, <<>>, "")]
        ELSE IF dry
        THEN [files |-> fs, line |-> Line("plan", src, dest, "")]
        ELSE [files |-> os_rename(fs, src, dest), line |-> Line("renamed", src, dest, "")]

\* line 79: the text of the first choice, stripped
request_image_name(reply) == Strip(reply, Whitespace)

ServiceError == "error"

A == <<"a">>
B == <<"b">>
Image == Fallback

MainUniverse ==
    { A \o PNG, B \o PNG, B \o JPG, NumberedCandidate(A, 1, PNG),
      Image \o JPG, <<"n",".","t","x","t">>, PNG }

Replies == { <<>>, <<"a">>, <<" ","B","!">>, <<"a","-","1">> }

Init ==
    /\ files \in {S \in SUBSET MainUniverse : Cardinality(S) <= MaxFiles}
    /\ is_dir \in BOOLEAN
    /\ dry_run \in BOOLEAN
    /\ picture_paths = <<>>
    /\ idx = 0
    /\ pc = "start"
    /\ log = <<>>
    /\ calls = <<>>
    /\ IdleSlug /\ IdlePath /\ IdlePair

\* lines 107-109: the path is not a directory
MainNotADirectory ==
    /\ pc = "start"
    /\ ~is_dir
    /\ pc' = "exit"
    /\ UNCHANGED <<files, is_dir, dry_run, picture_paths, idx, log, calls>>
    /\ UNCHANGED <<slugVars, pathVars, pairVars>>

\* lines 107-118: the file list is read and sorted
MainListPictures ==
    /\ pc = "start"
    /\ is_dir
    /\ picture_paths' = sorted(glob(files))
    /\ idx' = 1
    /\ pc' = "loop"
    /\ UNCHANGED <<files, is_dir, dry_run, log, calls>>
    /\ UNCHANGED <<slugVars, pathVars, pairVars>>

\* lines 118-141: one iteration in which the service answers; the request
\* reads the file first (line 52), so it can only answer for a file that exists
MainIterate ==
    /\ pc = "loop"
    /\ idx <= Len(picture_paths)
    /\ exists(files, picture_paths[idx])
    /\ \E reply \in Replies :
         LET src == picture_paths[idx]
             r == Body(files, src, request_image_name(reply), dry_run)
         IN  /\ calls' = Append(calls, [file |-> src, reply |-> reply])
             /\ files' = r.files
             /\ log' = Append(log, r.line)
    /\ idx' = idx + 1
    /\ UNCHANGED <<is_dir, dry_run, picture_paths, pc>>
    /\ UNCHANGED <<slugVars, pathVars, pairVars>>

\* the handler ending in "continue" instead of "raise exc"
MainServiceErrorContinues ==
    /\ pc = "loop"
    /\ idx <= Len(picture_paths)
    /\ calls' = Append(calls, [file |-> picture_paths[idx], reply |-> "error"])
    /\ log' = Append(log, [tag |-> "skip", src |-> picture_paths[idx],
                           dest |-> <<>>, note |-> "API error"])
    /\ idx' = idx + 1
    /\ UNCHANGED <<files, is_dir, dry_run, picture_paths, pc>>
    /\ UNCHANGED <<slugVars, pathVars, pairVars>>

\* lines 120-124: the request raises; the error is printed and raised again
MainServiceError ==
    /\ pc = "loop"
    /\ idx <= Len(picture_paths)
    /\ calls' = Append(calls, [file |-> picture_paths[idx], reply |-> ServiceError])
    /\ log' = Append(log, Line("skip", picture_paths[idx], <<>>, "API error"))
    /\ pc' = "raised"
    /\ UNCHANGED <<files, is_dir, dry_run, picture_paths, idx>>
    /\ UNCHANGED <<slugVars, pathVars, pairVars>>

\* line 118: the list is exhausted
MainReturn ==
    /\ pc = "loop"
    /\ idx > Len(picture_paths)
    /\ pc' = "done"
    /\ UNCHANGED <<files, is_dir, dry_run, picture_paths, idx, log, calls>>
    /\ UNCHANGED <<slugVars, pathVars, pairVars>>

Next ==
    \/ MainNotADirectory
    \/ MainListPictures
    \/ MainIterate
    \/ MainServiceError
    \/ MainReturn

Spec == Init /\ [][Next]_vars

\* ------------------- a dry run and a real run on the same directory, with
\* ------------------- the same answer of the service for each file
InitPair ==
    /\ plan_files \in {S \in SUBSET MainUniverse : Cardinality(S) <= MaxFiles}
    /\ real_files = plan_files
    /\ plan_log = <<>>
    /\ real_log = <<>>
    /\ pair_paths = <<>>
    /\ pair_idx = 0
    /\ pair_pc = "start"
    /\ IdleSlug /\ IdlePath /\ IdleMain

\* lines 107-118 in both runs
PairListPictures ==
    /\ pair_pc = "start"
    /\ pair_paths' = sorted(glob(plan_files))
    /\ pair_idx' = 1
    /\ pair_pc' = "loop"
    /\ UNCHANGED <<plan_files, real_files, plan_log, real_log>>
    /\ UNCHANGED <<slugVars, pathVars, mainVars>>

\* lines 118-141 in both runs
PairIterate ==
    /\ pair_pc = "loop"
    /\ pair_idx <= Len(pair_paths)
    /\ exists(plan_files, pair_paths[pair_idx])
    /\ exists(real_files, pair_paths[pair_idx])
    /\ \E reply \in Replies :
         LET src == pair_paths[pair_idx]
             p == Body(plan_files, src, request_image_name(reply), TRUE)
             r == Body(real_files, src, request_image_name(reply), FALSE)
         IN  /\ plan_files' = p.files
             /\ plan_log' = Append(plan_log, p.line)
             /\ real_files' = r.files
             /\ real_log' = Append(real_log, r.line)
    /\ pair_idx' = pair_idx + 1
    /\ UNCHANGED <<pair_paths, pair_pc>>
    /\ UNCHANGED <<slugVars, pathVars, mainVars>>

\* lines 120-124 in both runs
PairServiceError ==
    /\ pair_pc = "loop"
    /\ pair_idx <= Len(pair_paths)
    /\ plan_log' = Append(plan_log, Line("skip", pair_paths[pair_idx], <<>>, "API error"))
    /\ real_log' = Append(real_log, Line("skip", pair_paths[pair_idx], <<>>, "API error"))
    /\ pair_pc' = "raised"
    /\ UNCHANGED <<plan_files, real_files, pair_paths, pair_idx>>
    /\ UNCHANGED <<slugVars, pathVars, mainVars>>

\* line 118 in both runs
PairReturn ==
    /\ pair_pc = "loop"
    /\ pair_idx > Len(pair_paths)
    /\ pair_pc' = "done"
    /\ UNCHANGED <<plan_files, real_files, plan_log, real_log, pair_paths, pair_idx>>
    /\ UNCHANGED <<slugVars, pathVars, mainVars>>

NextPair == PairListPictures \/ PairIterate \/ PairServiceError \/ PairReturn

SpecPair == InitPair /\ [][NextPair]_vars

\* ================================================================ claims
SlugChars == Range(LowerLetters) \cup Range(Digits) \cup {"_"}

\* the text holds no letter and no digit, so nothing of it survives the cleaning
OnlyNoise(t) ==
    \A i \in 1..Len(t) : LowerChar(t[i]) \notin Range(LowerLetters) \cup Range(Digits)

\* C1: the output of sanitize_to_slug holds only lowercase letters, digits and
\* underscores, neither starts nor ends with an underscore, and is no longer
\* than max_length, also when the final truncation cut it.
C1_SlugWellFormed ==
    slug_pc = "returned" =>
        /\ \A i \in 1..Len(slug) : slug[i] \in SlugChars
        /\ slug # <<>> => slug[1] # "_" /\ slug[Len(slug)] # "_"
        /\ Len(slug) <= max_length

\* C2 as stated: sanitize_to_slug never returns the empty string, and returns
\* "image" for every input whose cleaned form is empty.
C2_NeverEmpty ==
    slug_pc = "returned" =>
        /\ slug # <<>>
        /\ OnlyNoise(text) => slug = <<"i","m","a","g","e">>

\* C2 amended: with max_length >= 1 the output is never empty, and an input
\* whose cleaned form is empty yields "image" cut to max_length characters,
\* which is "image" itself when max_length >= 5.
C2_FallbackCutToMaxLength ==
    slug_pc = "returned" =>
        /\ max_length >= 1 => slug # <<>>
        /\ OnlyNoise(text) /\ max_length >= 5 => slug = <<"i","m","a","g","e">>
        /\ OnlyNoise(text) /\ max_length < 5 =>
               slug = SubSeq(<<"i","m","a","g","e">>, 1, max_length)

C2_Witness ==
    /\ slug_pc = "returned"
    /\ text = <<" ", " ", " ">>
    /\ max_length >= 5
    /\ slug = <<"i","m","a","g","e">>

\* the k-th path of the sequence {base}{ext}, {base}-1{ext}, {base}-2{ext}, ...
C3_Nth(k) ==
    IF k = 0 THEN base_name \o extension
    ELSE base_name \o <<"-">> \o IntToStr(k) \o extension

\* C3: make_unique_path terminates, and the path it returns does not exist and
\* is the first unoccupied one of {base}{ext}, {base}-1{ext}, {base}-2{ext}, ...
C3_FirstUnoccupied ==
    /\ <>(mp_pc = "returned")
    /\ [](mp_pc = "returned" =>
            /\ candidate \notin mp_files
            /\ \E k \in 0..Cardinality(mp_files) :
                 /\ candidate = C3_Nth(k)
                 /\ \A j \in 0..(k - 1) : C3_Nth(j) \in mp_files)

C3_Witness ==
    /\ mp_pc = "returned"
    /\ base_name = <<"c","a","t">>
    /\ extension = <<".","p","n","g">>
    /\ <<"c","a","t",".","p","n","g">> \in mp_files
    /\ <<"c","a","t","-","1",".","p","n","g">> \in mp_files
    /\ candidate = <<"c","a","t","-","2",".","p","n","g">>

\* C4: a dry run never changes the set of names in the directory, whether it
\* completes or aborts, and prints only plan, keep and skip lines.
C4_DryRunTouchesNothing ==
    [][dry_run =>
         /\ files' = files
         /\ \A k \in 1..Len(log') : log'[k].tag \in {"plan", "keep", "skip"}]_vars

C4_Witness ==
    /\ dry_run
    /\ pc = "done"
    /\ \E k \in 1..Len(log) : log[k].tag = "plan"

\* C5: a file whose suggestion sanitizes to empty gets a [skip] line, no plan
\* and no rename, and stays in the directory.
C5_EmptySuggestionSkipped ==
    \A k \in 1..Len(calls) :
        (calls[k].reply # ServiceError /\ OnlyNoise(calls[k].reply)) =>
            /\ log[k].tag = "skip"
            /\ calls[k].file \in files

\* C6: a file whose slug and lowercase extension spell its present name gets a
\* [keep] line and keeps its name, in dry-run and in rename mode.
C6_SameNameKept ==
    \A k \in 1..Len(calls) :
        (/\ calls[k].reply # ServiceError
         /\ sanitize_to_slug(request_image_name(calls[k].reply), DefaultMaxLength)
                \o Lower(suffix(calls[k].file)) = calls[k].file) =>
            /\ log[k].tag = "keep"
            /\ calls[k].file \in files

\* C7: a service error on the k-th file is printed and ends the run: it is the
\* last call, made once, for the k-th file of the list; no later file is
\* requested, planned or renamed; the k-th file is not renamed; and the files
\* renamed before it keep their new names.
C7_ServiceErrorAborts ==
    \A k \in 1..Len(calls) :
        calls[k].reply = ServiceError =>
            /\ pc = "raised"
            /\ k = Len(calls) /\ k = idx /\ Len(log) = k
            /\ calls[k].file = picture_paths[k]
            /\ log[k] = [tag |-> "skip", src |-> picture_paths[k],
                         dest |-> <<>>, note |-> "API error"]
            /\ \A j \in 1..(k - 1) : calls[j].file # picture_paths[k]
            /\ \A n \in (k + 1)..Len(picture_paths) : \A j \in 1..Len(log) :
                   calls[j].file # picture_paths[n] /\ log[j].src # picture_paths[n]
            /\ picture_paths[k] \in files
            /\ \A j \in 1..(k - 1) : log[j].tag = "renamed" => log[j].dest \in files

C7_Witness ==
    /\ pc = "raised"
    /\ idx = 2
    /\ Len(picture_paths) = 3
    /\ log[1].tag = "renamed"
    /\ calls[2].reply = ServiceError

\* C8: the list is read once: the calls made so far are the files matched at
\* the start, each once, in ascending order, all of them when the run
\* completes; a name created by a rename is never requested or renamed again;
\* and there is at most one rename per listed file.
C8_ListReadOnce ==
    /\ \A j, k \in 1..Len(picture_paths) : j < k => StrLess(picture_paths[j], picture_paths[k])
    /\ Len(calls) <= Len(picture_paths)
    /\ \A k \in 1..Len(calls) : calls[k].file = picture_paths[k]
    /\ Len(log) = Len(calls)
    /\ \A k \in 1..Len(log) : log[k].src = picture_paths[k]
    /\ pc = "done" => Len(calls) = Len(picture_paths)
    /\ (pc = "loop" /\ calls = <<>>) =>
           Range(picture_paths) =
               {f \in files : Head(f) # "." /\ \E e \in {PNG, JPG, JPEG, WEBP} : EndsWith(f, e)}
    /\ \A j, k \in 1..Len(log) :
           (j < k /\ log[j].tag = "renamed") => log[j].dest # calls[k].file
    /\ Cardinality({k \in 1..Len(log) : log[k].tag = "renamed"}) <= Len(picture_paths)

C8_Witness ==
    /\ pc = "done"
    /\ Len(picture_paths) = 3
    /\ \A k \in 1..3 : log[k].tag = "renamed"
    /\ \E k \in 1..3 : GlobMatches(log[k].dest, PNG)

\* C9: in rename mode every rename finds its source present and its
\* destination absent, moves that one name only, leaves the number of files as
\* it was and gives the destination the lowercase extension of the source; no
\* other step changes the directory.
C9_RenameNeverOverwrites ==
    [][~dry_run =>
         /\ Cardinality(files') = Cardinality(files)
         /\ (Len(log') > Len(log) /\ log'[Len(log')].tag = "renamed") =>
              LET ln == log'[Len(log')]
              IN  /\ ln.src \in files
                  /\ ln.dest \notin files
                  /\ files' = (files \ {ln.src}) \cup {ln.dest}
                  /\ suffix(ln.dest) = Lower(suffix(ln.src))
         /\ ~(Len(log') > Len(log) /\ log'[Len(log')].tag = "renamed") => files' = files]_vars

C9_Witness ==
    /\ ~dry_run
    /\ pc = "done"
    /\ \E j, k \in 1..Len(log) :
         /\ j < k
         /\ log[j].tag = "renamed" /\ log[k].tag = "renamed"
         /\ calls[j].reply = calls[k].reply
         /\ suffix(log[j].src) = suffix(log[k].src)

\* the (source, destination) pairs of the lines of a log that carry a tag
RECURSIVE PairsOf(_, _)
PairsOf(lg, tag) ==
    IF lg = <<>> THEN <<>>
    ELSE (IF Head(lg).tag = tag THEN <<<<Head(lg).src, Head(lg).dest>>>> ELSE <<>>)
         \o PairsOf(Tail(lg), tag)

\* C10: when both runs complete, the pairs of the [plan] lines of the dry run
\* are the pairs renamed by the real run, in the same order.
C10_PlanEqualsRenames ==
    pair_pc = "done" => PairsOf(plan_log, "plan") = PairsOf(real_log, "renamed")
====
